---- MODULE Spec2Model ----
(***************************************************************************)
(* Model of the two nightwatch custom commands of the repository:          *)
(*   - WaitForTitle (src/es6/commands/waitForTitle.js): polls the page     *)
(*     title with a checker until it is true or a timeout has elapsed;     *)
(*   - the jQuery click command (src/unnamed/part_000): resolves a         *)
(*     selector in the browser and clicks the first element found.         *)
(* Time is in milliseconds.  JavaScript values are records                 *)
(* [t, n, s]: t is the value's typeof, n its number, s its string.         *)
(***************************************************************************)
EXTENDS Integers, Sequences, FiniteSets, TLC

\* ------------------------------------------------------------------ bounds

\* the wall clock moves in steps of TickStep ms, up to MaxClock
TickStep == 100
MaxClock == 5400
\* the wall clock when the first command is invoked
Epoch == 100
\* the wall clock limit of the runs with two invocations on one object
MaxClockTwice == 700
\* the wall clock limit of the runs checked for termination
MaxClockLive == 700
\* number of elements of the page's document
NumNodes == 3

\* --------------------------------------------------------- JavaScript values

Undef == [t |-> "undefined", n |-> 0, s |-> ""]
Null == [t |-> "object", n |-> 0, s |-> "null"]
Obj == [t |-> "object", n |-> 1, s |-> "{}"]
NaN == [t |-> "number", n |-> 0, s |-> "NaN"]
Num(k) == [t |-> "number", n |-> k, s |-> ""]
Str(x) == [t |-> "string", n |-> 0, s |-> x]
Bool(b) == [t |-> "boolean", n |-> IF b THEN 1 ELSE 0, s |-> ""]

\* typeof v
TypeOf(v) == v.t

\* ToBoolean(v): undefined, null, 0, NaN, "" and false are falsy
Truthy(v) ==
  CASE v.t = "undefined" -> FALSE
    [] v.t = "number" -> v.n # 0 /\ v.s # "NaN"
    [] v.t = "string" -> v.s # ""
    [] v.t = "boolean" -> v.n = 1
    [] OTHER -> v.n # 0

\* ------------------------------------------------------- program constants

timeoutRetryInMilliseconds == 100
defaultTimeoutInMilliseconds == 5000

\* ------------------------------------------------------------------- inputs

\* the invocations of command() on one WaitForTitle object
Invocations == {1, 2}

\* timeoutInMilliseconds arguments
TimeoutArgs == {Undef, Str("150"), Num(-100), Num(0), Num(100), Num(300)}
\* api.globals.waitForConditionTimeout settings
GlobalTimeouts == {Undef, Num(200)}
\* defaultMessage arguments
MessageArgs ==
  {Undef, Str(""), Str("title never matched"), Num(0), Bool(FALSE), NaN, Null,
   Num(7), Bool(TRUE), Obj}

TimeoutArgsTwice == {Num(100), Num(300)}
MessageArgsTwice == {Undef, Str("title never matched")}

VARIABLES
  clock,                      \* new Date().getTime()
  waitForConditionTimeout,    \* this.api.globals.waitForConditionTimeout
  startTimeInMilliseconds,    \* this.startTimeInMilliseconds
  wait,                       \* per invocation: its closure and what it did
  parentOf,                   \* the document: each element's parent (0: the document)
  matches,                    \* the elements each selector string matches
  click                       \* the click command: its closure and what it did

waitVars == <<clock, waitForConditionTimeout, startTimeInMilliseconds, wait>>
clickVars == <<parentOf, matches, click>>

vars == <<waitVars, clickVars>>

\* --------------------------------------------------------------- WaitForTitle

\* an invocation that has not been made yet
IdleWait ==
  [pc |-> "idle", timeoutArg |-> Undef, defaultMessage |-> Undef,
   timeoutInMilliseconds |-> Undef, started |-> 0, due |-> 0, now |-> 0,
   fetches |-> 0, timers |-> 0, resolved |-> 0, lastResult |-> FALSE,
   assertions |-> <<>>, events |-> <<>>, thrown |-> "", returned |-> "none",
   inFlight |-> 0, pending |-> 0, log |-> <<>>]

\* inFlight: the title fetches issued whose callback has not run yet;
\* pending: the retry timers set that have not fired yet;
\* log: the assertions recorded and the events emitted, in order

\* a resolution that skips the global configuration
ResolveTimeoutNoGlobal(timeoutArg, globalTimeout) ==
  IF TypeOf(timeoutArg) # "number" THEN Num(defaultTimeoutInMilliseconds)
                                   ELSE timeoutArg

\* lines 35-40: the timeout the polling loop is given
ResolveTimeout(timeoutArg, globalTimeout) ==
  LET t1 == IF TypeOf(timeoutArg) # "number" THEN globalTimeout ELSE timeoutArg
  IN IF TypeOf(t1) # "number" THEN Num(defaultTimeoutInMilliseconds) ELSE t1

\* line 41: the test that rejects the message argument
MessageRejected(defaultMessage) ==
  Truthy(defaultMessage) /\ TypeOf(defaultMessage) # "string"

\* a message that reports the read's timestamp instead of the elapsed time
ComposeMessageAbsolute(defaultMessage, result, loaded, start, timeout) ==
  IF Truthy(defaultMessage)
    THEN [kind |-> "custom", text |-> defaultMessage.s, ms |-> 0]
    ELSE IF result
      THEN [kind |-> "true after", text |-> "", ms |-> loaded]
      ELSE [kind |-> "ReferenceError", text |-> "element", ms |-> timeout]

\* lines 47-54: the message of the assertion.  The timeout branch reads the
\* identifiers element and attribute, which nothing declares: evaluating the
\* template throws a ReferenceError.
ComposeMessage(defaultMessage, result, loaded, start, timeout) ==
  IF Truthy(defaultMessage)
    THEN [kind |-> "custom", text |-> defaultMessage.s, ms |-> 0]
    ELSE IF result
      THEN [kind |-> "true after", text |-> "", ms |-> loaded - start]
      ELSE [kind |-> "ReferenceError", text |-> "element", ms |-> timeout]

\* a callback that emits 'complete' before it records the assertion
CallbackEmitFirst(w, result, loaded, start) ==
  LET message == ComposeMessage(w.defaultMessage, result, loaded, start,
                                w.timeoutInMilliseconds.n)
  IN IF message.kind = "ReferenceError"
       THEN [w EXCEPT !.pc = "thrown", !.thrown = "ReferenceError"]
       ELSE [w EXCEPT !.pc = "done",
                      !.assertions = Append(@, [passed |-> result, message |-> message]),
                      !.events = Append(@, "complete"),
                      !.log = @ \o <<"complete", "assertion">>]

\* lines 46-58: the callback given to check(), run with (result, loaded)
Callback(w, result, loaded, start) ==
  LET message == ComposeMessage(w.defaultMessage, result, loaded, start,
                                w.timeoutInMilliseconds.n)
  IN IF message.kind = "ReferenceError"
       THEN [w EXCEPT !.pc = "thrown", !.thrown = "ReferenceError"]
       ELSE [w EXCEPT !.pc = "done",
                      !.assertions = Append(@, [passed |-> result, message |-> message]),
                      !.events = Append(@, "complete"),
                      !.log = @ \o <<"assertion", "complete">>]

\* a comparison that stops one retry interval early
UnderTimeoutEarly(now, start, maxTimeInMilliseconds) ==
  now - start < maxTimeInMilliseconds - timeoutRetryInMilliseconds

\* a comparison that retries once more at the timeout itself
UnderTimeoutInclusive(now, start, maxTimeInMilliseconds) ==
  now - start <= maxTimeInMilliseconds

\* a comparison against a start that is reset on every poll
UnderTimeoutPerPoll(now, start, maxTimeInMilliseconds) ==
  now - now < maxTimeInMilliseconds

\* line 68: whether another poll is scheduled
UnderTimeout(now, start, maxTimeInMilliseconds) ==
  now - start < maxTimeInMilliseconds

\* a title callback that sets the retry timer and also fetches at once
TitleReadEager(w, r, now, start) ==
  LET v == [w EXCEPT !.now = now, !.lastResult = r, !.resolved = @ + 1,
                     !.inFlight = @ - 1]
  IN IF r
       THEN Callback(v, TRUE, now, start)
       ELSE IF UnderTimeout(now, start, v.timeoutInMilliseconds.n)
         THEN [v EXCEPT !.pc = "fetching", !.timers = @ + 1, !.pending = @ + 1,
                        !.due = now + timeoutRetryInMilliseconds,
                        !.fetches = @ + 1, !.inFlight = @ + 1]
         ELSE Callback(v, FALSE, 0, start)

\* a title callback that compares the elapsed time before it asks the checker
TitleReadTimeoutFirst(w, r, now, start) ==
  LET v == [w EXCEPT !.now = now, !.lastResult = r, !.resolved = @ + 1,
                     !.inFlight = @ - 1]
  IN IF ~UnderTimeout(now, start, v.timeoutInMilliseconds.n)
       THEN Callback(v, FALSE, 0, start)
       ELSE IF r
         THEN Callback(v, TRUE, now, start)
         ELSE [v EXCEPT !.pc = "timer", !.timers = @ + 1, !.pending = @ + 1,
                        !.due = now + timeoutRetryInMilliseconds]

\* a title callback that goes on to the timeout test after a success
TitleReadNoReturn(w, r, now, start) ==
  LET v == [w EXCEPT !.now = now, !.lastResult = r, !.resolved = @ + 1,
                     !.inFlight = @ - 1]
      u == IF r THEN Callback(v, TRUE, now, start) ELSE v
  IN IF UnderTimeout(now, start, u.timeoutInMilliseconds.n)
       THEN [u EXCEPT !.pc = "timer", !.timers = @ + 1, !.pending = @ + 1,
                      !.due = now + timeoutRetryInMilliseconds]
       ELSE Callback(u, FALSE, 0, start)

\* lines 64-75: the callback of api.getTitle, with the checker's verdict r
TitleRead(w, r, now, start) ==
  LET v == [w EXCEPT !.now = now, !.lastResult = r, !.resolved = @ + 1,
                     !.inFlight = @ - 1]
  IN IF r
       THEN Callback(v, TRUE, now, start)
       ELSE IF UnderTimeout(now, start, v.timeoutInMilliseconds.n)
         THEN [v EXCEPT !.pc = "timer", !.timers = @ + 1, !.pending = @ + 1,
                        !.due = now + timeoutRetryInMilliseconds]
         ELSE Callback(v, FALSE, 0, start)

\* a rejection that emits 'error' and goes on to check()
RejectionFallsThrough(w) ==
  [w EXCEPT !.pc = "fetching", !.events = Append(@, "error"),
            !.log = Append(@, "error"), !.fetches = @ + 1, !.inFlight = @ + 1,
            !.returned = "this"]

\* lines 42-43: the message is rejected: emit 'error' and return
Rejection(w) ==
  [w EXCEPT !.pc = "rejected", !.events = Append(@, "error"),
            !.log = Append(@, "error"), !.returned = "undefined"]

\* lines 32-61: command(checker, timeoutInMilliseconds, defaultMessage)
CommandWith(i, timeouts, messages) ==
  /\ wait[i].pc = "idle"
  /\ \A j \in Invocations : j < i => wait[j].pc # "idle"
  /\ \E t \in timeouts, m \in messages :
       LET w == [wait[i] EXCEPT !.timeoutArg = t, !.defaultMessage = m,
                   !.started = clock,
                   !.timeoutInMilliseconds = ResolveTimeout(t, waitForConditionTimeout)]
       IN wait' = [wait EXCEPT ![i] =
            IF MessageRejected(m)
              THEN Rejection(w)
              ELSE [w EXCEPT !.pc = "fetching", !.fetches = @ + 1,
                             !.inFlight = @ + 1, !.returned = "this"]]
  /\ startTimeInMilliseconds' = Num(clock)
  /\ UNCHANGED <<clock, waitForConditionTimeout, clickVars>>

\* lines 64-75: a title fetch resolves and its callback runs
GetTitleCallback(i) ==
  /\ wait[i].inFlight > 0
  /\ \E r \in BOOLEAN :
       wait' = [wait EXCEPT ![i] =
                  TitleRead(wait[i], r, clock, startTimeInMilliseconds.n)]
  /\ UNCHANGED <<clock, waitForConditionTimeout, startTimeInMilliseconds, clickVars>>

\* lines 69-71: the retry timer fires and check() fetches the title again
RetryTimer(i) ==
  /\ wait[i].pending > 0
  /\ clock >= wait[i].due
  /\ wait' = [wait EXCEPT ![i].pc = "fetching", ![i].fetches = @ + 1,
                          ![i].pending = @ - 1, ![i].inFlight = @ + 1]
  /\ UNCHANGED <<clock, waitForConditionTimeout, startTimeInMilliseconds, clickVars>>

\* the wall clock advances while a wait is in progress
TickTo(limit) ==
  /\ \E i \in Invocations : wait[i].inFlight > 0 \/ wait[i].pending > 0
  /\ clock + TickStep <= limit
  /\ clock' = clock + TickStep
  /\ UNCHANGED <<waitForConditionTimeout, startTimeInMilliseconds, wait, clickVars>>

\* lines 24-30: the object after construction, before any command
InitWait(globals) ==
  /\ clock = Epoch
  /\ waitForConditionTimeout \in globals
  /\ startTimeInMilliseconds = Null
  /\ wait = [i \in Invocations |-> IdleWait]

\* ------------------------------------------------------------ click command

\* the elements of the document, numbered in document order
Nodes == 1..NumNodes
\* the selector strings of the tests
SelectorNames == {"p", "c"}

\* a string, a selector descriptor of a section (an object with a .selector
\* field) and the value undefined, as items of a selector
SelString(x) == [t |-> "string", selector |-> x]
SelDescriptor(x) == [t |-> "descriptor", selector |-> x]
SelUndefined == [t |-> "undefined", selector |-> ""]

\* a selector: a single string, or an array of two items
Single(x) == [shape |-> "string", items |-> <<SelString(x)>>]
Pair(a, b) == [shape |-> "array", items |-> <<a, b>>]

\* the selectors command() is called with
SelectorArgs ==
  {Single(x) : x \in SelectorNames}
    \cup {Pair(SelDescriptor(x), SelDescriptor(y)) : x, y \in SelectorNames}
    \cup {Pair(SelString(x), SelString(y)) : x, y \in SelectorNames}

\* item.selector: a descriptor's field; a string has no such property
SelectorField(item) ==
  IF item.t = "descriptor" THEN SelString(item.selector) ELSE SelUndefined

\* a normalization that swaps the section and the target
getMultipleSelectorsSwapped(selector) ==
  IF selector.shape = "array"
    THEN Pair(SelectorField(selector.items[2]), SelectorField(selector.items[1]))
    ELSE selector

\* lines 27-35
getMultipleSelectors(selector) ==
  IF selector.shape = "array"
    THEN Pair(SelectorField(selector.items[1]), SelectorField(selector.items[2]))
    ELSE selector

RECURSIVE Ancestors(_, _)
\* the proper ancestors of element n in document p
Ancestors(p, n) == IF p[n] = 0 THEN {} ELSE {p[n]} \cup Ancestors(p, p[n])

\* numbering in document order: the parent of n + 1 is n, an ancestor of n
\* or the document
DocumentOrder(p) ==
  \A n \in Nodes : n > 1 => p[n] \in {0, n - 1} \cup Ancestors(p, n - 1)

RECURSIVE InOrder(_)
\* a set of elements as a collection in document order
InOrder(S) ==
  IF S = {} THEN <<>>
  ELSE LET m == CHOOSE x \in S : \A y \in S : x <= y
       IN <<m>> \o InOrder(S \ {m})

\* the elements a selector item matches anywhere in the document; a value
\* that is no selector string (undefined) matches none
Matching(item) == IF item.t = "string" THEN matches[item.selector] ELSE {}

\* lines 55, 77: $(selector), the jQuery collection of the matching elements
JQuery(item) == InOrder(Matching(item))

\* line 55: $(section).find(selector), the descendants of any element of the
\* collection that match, in document order
JQueryFind(roots, item) ==
  InOrder({n \in Matching(item) :
             \E k \in 1..Len(roots) : roots[k] \in Ancestors(parentOf, n)})

\* lines 57, 79: document.querySelectorAll(selector)
QuerySelectorAll(item) == InOrder(Matching(item))

\* line 67: element.querySelectorAll(selector)
ElementQuerySelectorAll(root, item) ==
  InOrder({n \in Matching(item) : root \in Ancestors(parentOf, n)})

\* what getElementFromSelector returns or throws
Found(kind, elems) == [kind |-> kind, elems |-> elems]

\* line 48: the default of the options argument
DefaultOptions == [jquery |-> FALSE, return_all |-> FALSE, parent_element |-> FALSE]

\* lines 68-72, 80-84: a non-empty list gives the list or its first element
FirstOrAll(elements, options) ==
  IF Len(elements) > 0
    THEN IF options.return_all THEN Found("nodelist", elements)
                               ELSE Found("element", <<elements[1]>>)
    ELSE Found("null", <<>>)

\* lines 47-90
getElementFromSelector(selector, options) ==
  IF selector.shape = "array"
    THEN LET section_selector == selector.items[1]
             inner == selector.items[2]
         IN IF options.jquery
              THEN Found("jquery", JQueryFind(JQuery(section_selector), inner))
              ELSE LET section_element == QuerySelectorAll(section_selector)
                   IN IF Len(section_element) = 0 THEN Found("null", <<>>)
                      ELSE IF options.parent_element
                        THEN Found("ReferenceError", <<>>)
                        ELSE FirstOrAll(ElementQuerySelectorAll(section_element[1], inner),
                                        options)
    ELSE IF options.jquery
      THEN Found("jquery", JQuery(selector.items[1]))
      ELSE FirstOrAll(QuerySelectorAll(selector.items[1]), options)

\* options that leave the lookup to the raw DOM path
ClickOptionsRawDom == [jquery |-> FALSE, return_all |-> TRUE, parent_element |-> FALSE]

\* line 92: the options the click command resolves with
ClickOptions == [jquery |-> TRUE, return_all |-> FALSE, parent_element |-> FALSE]

\* a click on every element found
ClickedAll(element) ==
  IF element.kind \in {"jquery", "nodelist"} THEN element.elems ELSE <<>>

\* lines 93-95: the elements clicked, given what was found
Clicked(element) ==
  IF element.kind \in {"jquery", "nodelist"} /\ Len(element.elems) > 0
    THEN <<element.elems[1]>>
    ELSE <<>>

\* lines 43-97: execute(selector), run in the page: the elements it clicks and
\* what it returns or throws (reading .length of null is a TypeError; a
\* single element has no .length)
execute(selector) ==
  LET element == getElementFromSelector(selector, ClickOptions)
  IN IF element.kind = "ReferenceError"
       THEN [clicked |-> <<>>, result |-> "ReferenceError"]
       ELSE IF element.kind = "null"
         THEN [clicked |-> <<>>, result |-> "TypeError"]
         ELSE [clicked |-> Clicked(element), result |-> "true"]

\* the click command before it is invoked
IdleClick ==
  [pc |-> "idle", selector |-> Single("p"), callback |-> FALSE,
   params |-> <<>>, clicked |-> <<>>, result |-> "", callbackArgs |-> <<>>,
   returned |-> "none"]

\* lines 37-41, 104-106: command(selector, callback) up to this.execute
ClickCommand ==
  /\ click.pc = "idle"
  /\ \E sel \in SelectorArgs, cb \in BOOLEAN :
       click' = [click EXCEPT !.pc = "executing", !.selector = sel,
                   !.callback = cb,
                   !.params = <<getMultipleSelectors(sel)>>,
                   !.returned = "this"]
  /\ UNCHANGED <<parentOf, matches, waitVars>>

\* line 104: the host runs execute in the page with params
BrowserExecute ==
  /\ click.pc = "executing"
  /\ LET r == execute(click.params[1])
     IN click' = [click EXCEPT !.pc = "executed", !.clicked = @ \o r.clicked,
                    !.result = r.result]
  /\ UNCHANGED <<parentOf, matches, waitVars>>

\* lines 98-102: execcallback, called by the host after the execution
execcallback ==
  /\ click.pc = "executed"
  /\ click' = [click EXCEPT !.pc = "done",
                 !.callbackArgs = IF click.callback THEN Append(@, TRUE) ELSE @]
  /\ UNCHANGED <<parentOf, matches, waitVars>>

\* no click command is in play
NoClick ==
  /\ parentOf = [n \in Nodes |-> 0]
  /\ matches = [x \in SelectorNames |-> {}]
  /\ click = IdleClick

\* a page and a click command about to be invoked
InitClick ==
  /\ InitWait({Undef})
  /\ parentOf \in {p \in [Nodes -> 0..NumNodes] :
                     (\A n \in Nodes : p[n] < n) /\ DocumentOrder(p)}
  /\ matches \in [SelectorNames -> SUBSET Nodes]
  /\ click = IdleClick

NextClick == ClickCommand \/ BrowserExecute \/ execcallback

SpecClick == InitClick /\ [][NextClick]_vars

\* one command() per object
Command == CommandWith(1, TimeoutArgs, MessageArgs)
Tick == TickTo(MaxClock)
TitleResolves == GetTitleCallback(1)
TimerFires == RetryTimer(1)

Init == InitWait(GlobalTimeouts) /\ NoClick

Next == Command \/ TitleResolves \/ TimerFires \/ Tick

Spec == Init /\ [][Next]_vars

\* command() called twice on the same object
CommandTwice == \E i \in Invocations : CommandWith(i, TimeoutArgsTwice, MessageArgsTwice)
TickTwice == TickTo(MaxClockTwice)
TitleResolvesTwice == \E i \in Invocations : GetTitleCallback(i)
TimerFiresTwice == \E i \in Invocations : RetryTimer(i)

InitTwice == InitWait({Undef}) /\ NoClick

NextTwice == CommandTwice \/ TitleResolvesTwice \/ TimerFiresTwice \/ TickTwice

SpecTwice == InitTwice /\ [][NextTwice]_vars

\* one command() with a global timeout configured; every title fetch is
\* answered, every timer set fires and the wall clock advances
TickLive == TickTo(MaxClockLive)

InitLive == InitWait({Num(200)}) /\ NoClick

NextLive == Command \/ TitleResolves \/ TimerFires \/ TickLive

SpecLive ==
  /\ InitLive
  /\ [][NextLive]_vars
  /\ WF_vars(TitleResolves)
  /\ WF_vars(TimerFires)
  /\ WF_vars(TickLive)
\* ------------------------------------------------------------------ claims

\* the elapsed time of invocation i at its last title read, from the
\* timestamp taken when it was invoked
Elapsed(i) == wait[i].now - wait[i].started

\* invocation i has had its deciding read with the checker false
TimedOut(i) == wait[i].pc \in {"done", "thrown"} /\ ~wait[i].lastResult

\* C1: an invocation whose message is absent or a string and whose checker
\* was false on every poll ends with exactly one failed assertion and then
\* 'complete', and nothing is thrown out of the title callback.
C1_TimeoutIsFailedAssertion ==
  \A i \in Invocations :
    (TimedOut(i) /\ wait[i].defaultMessage.t \in {"undefined", "string"})
      => /\ Len(wait[i].assertions) = 1
         /\ ~wait[i].assertions[1].passed
         /\ wait[i].events = <<"complete">>
         /\ wait[i].thrown = ""

\* C2: every supplied defaultMessage that is not a string, falsy ones
\* included, gives the 'error' event at once and no title fetch.
C2_NonStringMessageRejected ==
  \A i \in Invocations :
    (wait[i].pc # "idle" /\ wait[i].defaultMessage.t \notin {"undefined", "string"})
      => wait[i].events = <<"error">> /\ wait[i].fetches = 0

\* the click command's selector argument resolves to no element
NoTarget ==
  IF click.selector.shape = "string"
    THEN matches[click.selector.items[1].selector] = {}
    ELSE \/ click.selector.items[1].t # "descriptor"
         \/ matches[click.selector.items[1].selector] = {}

\* C3: for every selector the browser-side function returns true without
\* throwing, clicks nothing when nothing is resolved, and the callback, if
\* supplied, is then called exactly once with true; without a callback
\* nothing further happens.
C3_ClickAlwaysSucceeds ==
  /\ click.pc \in {"executed", "done"} => click.result = "true"
  /\ (click.pc \in {"executed", "done"} /\ NoTarget) => click.clicked = <<>>
  /\ click.pc = "done" =>
        click.callbackArgs = IF click.callback THEN <<TRUE>> ELSE <<>>
  /\ click.pc # "done" => click.callbackArgs = <<>>

C3_Witness ==
  /\ click.pc = "done"
  /\ click.callback
  /\ click.selector = Pair(SelDescriptor("p"), SelDescriptor("c"))
  /\ matches["p"] = {}
  /\ matches["c"] # {}
  /\ click.callbackArgs = <<TRUE>>

\* C4 as claimed: with a checker that is never true the invocation completes
\* with a failed assertion at an elapsed time e, T <= e <= T + 100.
C4_TimeoutWithinOneRetry ==
  \A i \in Invocations :
    (wait[i].pc = "done" /\ ~wait[i].lastResult)
      => /\ wait[i].timeoutInMilliseconds.n <= Elapsed(i)
         /\ Elapsed(i) <= wait[i].timeoutInMilliseconds.n + timeoutRetryInMilliseconds

\* C4 amended: with a checker that is never true the deciding read happens
\* at an elapsed time e >= T (so does the failed assertion that follows it);
\* every read before it was under T and set a retry timer of 100 ms, and the
\* next read is not before that timer is due.
C4_TimeoutNotBefore ==
  \A i \in Invocations :
    /\ TimedOut(i) => Elapsed(i) >= wait[i].timeoutInMilliseconds.n
    /\ wait[i].pc = "timer" =>
          /\ Elapsed(i) < wait[i].timeoutInMilliseconds.n
          /\ wait[i].due = wait[i].now + timeoutRetryInMilliseconds
    /\ (wait[i].pc = "fetching" /\ wait[i].timers > 0) => clock >= wait[i].due

C4_Witness ==
  \E i \in Invocations :
    /\ wait[i].pc = "done" /\ ~wait[i].lastResult
    /\ wait[i].timers > 0
    /\ Len(wait[i].assertions) = 1 /\ ~wait[i].assertions[1].passed
    /\ Elapsed(i) > wait[i].timeoutInMilliseconds.n + timeoutRetryInMilliseconds

\* C5: a checker that is true on the first title read gives one fetch, no
\* retry timer, one passed assertion and 'complete'; the elapsed time
\* reported is the time of that read minus the start timestamp.
C5_FirstReadTrue ==
  \A i \in Invocations :
    (wait[i].resolved = 1 /\ wait[i].lastResult)
      => /\ wait[i].pc = "done"
         /\ wait[i].fetches = 1
         /\ wait[i].timers = 0
         /\ Len(wait[i].assertions) = 1
         /\ wait[i].assertions[1].passed
         /\ wait[i].events = <<"complete">>
         /\ LET m == wait[i].assertions[1].message
            IN IF wait[i].defaultMessage.t = "string" /\ wait[i].defaultMessage.s # ""
                 THEN m.kind = "custom" /\ m.text = wait[i].defaultMessage.s
                 ELSE m.kind = "true after" /\ m.ms = Elapsed(i)

C5_Witness ==
  \E i \in Invocations :
    /\ wait[i].resolved = 1 /\ wait[i].lastResult
    /\ wait[i].defaultMessage = Undef
    /\ wait[i].assertions[1].message.ms = TickStep
    /\ wait[i].events = <<"complete">>

\* C6: command() returns the command object on every path, the rejection
\* of a non-string message included.
C6_ReturnsCommandObject ==
  \A i \in Invocations : wait[i].pc # "idle" => wait[i].returned = "this"

\* C7 as claimed: a pair of descriptors reaches the browser as the pair of
\* their .selector strings and every other selector unchanged, a pair of
\* plain strings included.
C7_NormalizationAsClaimed ==
  click.pc # "idle" =>
    click.params =
      IF /\ click.selector.shape = "array"
         /\ click.selector.items[1].t = "descriptor"
         /\ click.selector.items[2].t = "descriptor"
        THEN <<Pair(SelString(click.selector.items[1].selector),
                    SelString(click.selector.items[2].selector))>>
        ELSE <<click.selector>>

\* C7 amended: every array is mapped to [first.selector, second.selector]:
\* a pair of descriptors to the pair of their strings, a pair of plain
\* strings (which have no .selector) to [undefined, undefined]; a single
\* string is passed unchanged.
C7_NormalizationAmended ==
  click.pc # "idle" =>
    /\ Len(click.params) = 1
    /\ click.selector.shape = "string" => click.params[1] = click.selector
    /\ click.selector.shape = "array" =>
          /\ click.params[1].shape = "array"
          /\ Len(click.params[1].items) = 2
          /\ \A k \in 1..2 :
               click.params[1].items[k] =
                 IF click.selector.items[k].t = "descriptor"
                   THEN SelString(click.selector.items[k].selector)
                   ELSE SelUndefined

C7_Witness ==
  /\ click.pc = "executing"
  /\ click.selector = Pair(SelString("p"), SelString("c"))
  /\ click.params = <<Pair(SelUndefined, SelUndefined)>>

\* the first element of a non-empty set in document order
First(S) == CHOOSE x \in S : \A y \in S : x <= y

\* the elements matching c inside element r
Inside(r, c) == {n \in matches[c] : r \in Ancestors(parentOf, n)}

\* C8: an invocation clicks at most one element: for a string S the first
\* element matching S, for a pair (P, C) whose first root contains a match
\* of C the first such match in document order; a pair whose roots contain
\* no match clicks nothing.
C8_ClicksFirstMatchOnly ==
  click.pc \in {"executed", "done"} =>
    LET sel == click.params[1]
    IN /\ Len(click.clicked) <= 1
       /\ sel.shape = "string" =>
             click.clicked = IF matches[sel.items[1].selector] = {} THEN <<>>
                             ELSE <<First(matches[sel.items[1].selector])>>
       /\ (sel.shape = "array" /\ sel.items[1].t = "string" /\ sel.items[2].t = "string") =>
             LET P == sel.items[1].selector
                 C == sel.items[2].selector
             IN /\ (matches[P] # {} /\ Inside(First(matches[P]), C) # {})
                     => click.clicked = <<First(Inside(First(matches[P]), C))>>
                /\ (\A r \in matches[P] : Inside(r, C) = {}) => click.clicked = <<>>
                /\ \A k \in 1..Len(click.clicked) :
                     /\ click.clicked[k] \in matches[C]
                     /\ \E r \in matches[P] : click.clicked[k] \in Inside(r, C)

C8_Witness ==
  /\ click.pc = "done"
  /\ click.selector = Pair(SelDescriptor("p"), SelDescriptor("c"))
  /\ Cardinality(matches["p"]) >= 2
  /\ Cardinality(Inside(First(matches["p"]), "c")) >= 2
  /\ click.clicked = <<First(Inside(First(matches["p"]), "c"))>>

\* C9: two invocations are independent waits: each one's timeout is
\* measured from the timestamp of its own invocation, so a retry is set only
\* while its own elapsed time is under its timeout, and the elapsed time it
\* reports is counted from its own start.
C9_IndependentWaits ==
  \A i \in Invocations :
    /\ wait[i].pc = "timer" => Elapsed(i) < wait[i].timeoutInMilliseconds.n
    /\ (wait[i].pc = "done" /\ wait[i].lastResult /\ wait[i].defaultMessage = Undef)
          => wait[i].assertions[1].message.ms = Elapsed(i)

\* the timeout C10 expects for an invocation
ExpectedTimeout(i) ==
  IF wait[i].timeoutArg.t = "number" THEN wait[i].timeoutArg.n
  ELSE IF waitForConditionTimeout.t = "number" THEN waitForConditionTimeout.n
  ELSE 5000

\* C10: the timeout of the polling loop is the explicit argument when it is
\* a number, else the global waitForConditionTimeout when that is a number,
\* else 5000 ms, and every comparison of the invocation uses that value.
C10_EffectiveTimeout ==
  \A i \in Invocations :
    /\ wait[i].pc # "idle" => wait[i].timeoutInMilliseconds = Num(ExpectedTimeout(i))
    /\ wait[i].pc = "timer" => Elapsed(i) < ExpectedTimeout(i)
    /\ TimedOut(i) => Elapsed(i) >= ExpectedTimeout(i)

C10_Witness ==
  \E i \in Invocations :
    /\ wait[i].pc = "done" /\ ~wait[i].lastResult
    /\ wait[i].timeoutArg.t # "number"
    /\ waitForConditionTimeout = Undef
    /\ wait[i].timers > 1
    /\ Elapsed(i) >= 5000
\* invocation i has emitted the event e
Emitted(i, e) == \E k \in 1..Len(wait[i].events) : wait[i].events[k] = e

\* C11: within one invocation at most one activity is outstanding, one
\* title fetch in flight or one retry timer pending, never both; a timer is
\* set only by the callback of the last fetch issued, 100 ms after its read.
C11_OnePollAtATime ==
  \A i \in Invocations :
    /\ wait[i].inFlight \in {0, 1}
    /\ wait[i].pending \in {0, 1}
    /\ wait[i].inFlight + wait[i].pending <= 1
    /\ wait[i].timers <= wait[i].resolved
    /\ wait[i].pending = 1 =>
          /\ wait[i].resolved = wait[i].fetches
          /\ wait[i].timers = wait[i].resolved
          /\ ~wait[i].lastResult
          /\ wait[i].due = wait[i].now + 100

C11_Witness ==
  \E i \in Invocations :
    /\ wait[i].pending = 1
    /\ wait[i].inFlight = 0
    /\ wait[i].timers = 2
    /\ clock < wait[i].due

\* what holds of invocation i once it has emitted 'complete'
CompleteInOrder(i) ==
  Emitted(i, "complete") =>
    /\ wait[i].resolved >= 1
    /\ wait[i].resolved = wait[i].fetches
    /\ wait[i].lastResult \/ Elapsed(i) >= wait[i].timeoutInMilliseconds.n
    /\ Len(wait[i].assertions) = 1
    /\ wait[i].assertions[1].passed = wait[i].lastResult
    /\ wait[i].log = <<"assertion", "complete">>
    /\ wait[i].inFlight = 0
    /\ wait[i].pending = 0

\* a step of invocation i after 'complete' starts no fetch and no timer
QuietAfterComplete(i) ==
  Emitted(i, "complete") =>
    /\ wait'[i].fetches = wait[i].fetches
    /\ wait'[i].timers = wait[i].timers

\* C12: 'complete' is emitted only after the deciding title check has
\* resolved and after the assertion of the invocation was recorded, and no
\* title fetch and no retry timer is started after it.
C12_CompleteAfterDecidingCheck ==
  /\ [](\A i \in Invocations : CompleteInOrder(i))
  /\ [][\A i \in Invocations : QuietAfterComplete(i)]_vars

C12_Witness ==
  \E i \in Invocations :
    /\ wait[i].events = <<"complete">>
    /\ ~wait[i].lastResult
    /\ wait[i].timers >= 1
    /\ wait[i].log = <<"assertion", "complete">>

\* invocation i has stopped: nothing of it is outstanding
Stopped(i) ==
  /\ wait[i].pc \in {"done", "thrown", "rejected"}
  /\ wait[i].inFlight = 0
  /\ wait[i].pending = 0

\* C13: when title fetches are answered, timers fire and the clock advances,
\* every invocation stops after finitely many polls, with no fetch in flight
\* and no timer pending.
C13_Terminates ==
  \A i \in Invocations : (wait[i].pc # "idle") ~> Stopped(i)

C13_Witness ==
  \E i \in Invocations :
    /\ Stopped(i)
    /\ ~wait[i].lastResult
    /\ wait[i].timers >= 2
    /\ wait[i].resolved = wait[i].timers + 1

\* C14: an invocation that emitted 'error' for its message never fetches
\* the title, sets no timer, records no assertion and emits no 'complete'.
C14_RejectedIsSilent ==
  \A i \in Invocations :
    Emitted(i, "error") =>
      /\ wait[i].pc = "rejected"
      /\ wait[i].defaultMessage.t # "string"
      /\ wait[i].fetches = 0
      /\ wait[i].inFlight = 0
      /\ wait[i].timers = 0
      /\ wait[i].pending = 0
      /\ wait[i].assertions = <<>>
      /\ wait[i].events = <<"error">>
      /\ wait[i].log = <<"error">>

C14_Witness ==
  \E i \in Invocations :
    /\ wait[i].defaultMessage = Obj
    /\ wait[i].events = <<"error">>
    /\ wait[i].timeoutInMilliseconds = Num(0)

\* C15: a poll whose checker is true succeeds whatever the elapsed time; a
\* poll whose checker is false is followed by another poll when the elapsed
\* time is strictly under the timeout and is the timeout otherwise; no failed
\* assertion is recorded for a poll whose checker was true.
C15_CheckerBeforeTimeout ==
  \A i \in Invocations :
    wait[i].resolved >= 1 =>
      LET T == wait[i].timeoutInMilliseconds.n
      IN /\ wait[i].lastResult =>
               /\ wait[i].pc = "done"
               /\ Len(wait[i].assertions) = 1
               /\ wait[i].assertions[1].passed
         /\ (~wait[i].lastResult /\ Elapsed(i) < T) =>
               /\ wait[i].pc \in {"timer", "fetching"}
               /\ wait[i].assertions = <<>>
               /\ wait[i].timers = wait[i].resolved
         /\ (~wait[i].lastResult /\ Elapsed(i) >= T) =>
               /\ wait[i].pc \in {"done", "thrown"}
               /\ wait[i].timers = wait[i].resolved - 1
         /\ \A k \in 1..Len(wait[i].assertions) :
               ~wait[i].assertions[k].passed => ~wait[i].lastResult

C15_Witness ==
  \E i \in Invocations :
    /\ wait[i].lastResult
    /\ wait[i].timeoutInMilliseconds.n > 0
    /\ Elapsed(i) >= wait[i].timeoutInMilliseconds.n
    /\ wait[i].timers >= 1
    /\ wait[i].assertions[1].passed

\* C16: a non-empty string message is the assertion's message on success and
\* on timeout; without one the message on success states the elapsed time
\* and the message on timeout states that the expression was not true within
\* the effective timeout.
C16_AssertionMessages ==
  \A i \in Invocations :
    wait[i].pc \in {"done", "thrown"} =>
      /\ Len(wait[i].assertions) = 1
      /\ LET m == wait[i].assertions[1].message
         IN IF wait[i].defaultMessage.t = "string" /\ wait[i].defaultMessage.s # ""
              THEN m.kind = "custom" /\ m.text = wait[i].defaultMessage.s
              ELSE IF wait[i].lastResult
                THEN m.kind = "true after" /\ m.ms = Elapsed(i)
                ELSE m.kind = "not true in" /\ m.ms = wait[i].timeoutInMilliseconds.n

\* C17: per invocation at most one assertion is recorded and at most one
\* 'complete' emitted, never a passed and a failed assertion both, never
\* 'error' and 'complete' both.
C17_CompletesAtMostOnce ==
  \A i \in Invocations :
    /\ Len(wait[i].assertions) <= 1
    /\ Cardinality({k \in 1..Len(wait[i].events) : wait[i].events[k] = "complete"}) <= 1
    /\ ~(\E k, l \in 1..Len(wait[i].assertions) :
           wait[i].assertions[k].passed /\ ~wait[i].assertions[l].passed)
    /\ ~(Emitted(i, "error") /\ Emitted(i, "complete"))

C17_Witness ==
  \E i \in Invocations :
    /\ wait[i].lastResult
    /\ wait[i].timers >= 2
    /\ Len(wait[i].assertions) = 1
    /\ wait[i].events = <<"complete">>

\* C18: every invocation that is not rejected fetches the title at least
\* once; with a timeout of 0 or less a first read with the checker false is
\* the timeout, after one fetch and no retry timer, and a first read with
\* the checker true still succeeds.
C18_AtLeastOneFetch ==
  \A i \in Invocations :
    /\ wait[i].pc \notin {"idle", "rejected"} => wait[i].fetches >= 1
    /\ (wait[i].resolved >= 1 /\ wait[i].timeoutInMilliseconds.n <= 0) =>
          /\ wait[i].fetches = 1
          /\ wait[i].resolved = 1
          /\ wait[i].timers = 0
          /\ IF wait[i].lastResult
               THEN wait[i].pc = "done" /\ wait[i].assertions[1].passed
               ELSE TimedOut(i) /\ wait[i].inFlight = 0 /\ wait[i].pending = 0

C18_Witness ==
  \E i \in Invocations :
    /\ wait[i].timeoutInMilliseconds = Num(0)
    /\ wait[i].resolved = 1
    /\ ~wait[i].lastResult
    /\ Elapsed(i) = 0
    /\ wait[i].pc = "done"
    /\ wait[i].timers = 0
====
